---- MODULE Spec2Model ----
(***************************************************************************)
(* Commit templater of jj (cli/src/commit_templater.rs): the commit/change *)
(* id model (hex, short, shortest), the ref-name indexes with their lazy   *)
(* per-session cache, and the keyword/method resolver.                     *)
(***************************************************************************)
EXTENDS Integers, Sequences, FiniteSets, TLC

VARIABLES
    id,             \* CommitOrChangeId under evaluation: [space, bytes]
    prefix_len,     \* answer of IdPrefixContext::shortest_*_prefix_len for id
    call,           \* last id method or conversion evaluated: [method, len]
    result,         \* value or conversion outcome that evaluation produced
    view,           \* repo.view(): [branches, tags, git_refs, git_head, wc_commit_ids]
    store,          \* commit objects and the backend's answers, per commit id
    extension,      \* commit templater extension installed by the host
    ext_calls,      \* names handed to the extension's keyword resolver
    keyword_cache,  \* CommitKeywordCache: three OnceCell<Rc<RefNamesIndex>>
    builds,         \* number of runs of each index build function
    props,          \* properties built so far for the template
    pc,             \* "building" | "built" | "failed" | "panicked" | "idle"
    error,          \* Option<TemplateParseError> returned by parse
    requested,      \* index categories a resolved keyword has asked for
    last,           \* last resolver request: [op, name, recv, nargs]
    out             \* output of the last render: [commit, values]

idVars == <<id, prefix_len, call, result>>
sessionVars ==
    <<view, store, extension, ext_calls, keyword_cache, builds, props, pc, error, requested, last, out>>
vars == <<id, prefix_len, call, result, view, store, extension, ext_calls, keyword_cache,
          builds, props, pc, error, requested, last, out>>

-----------------------------------------------------------------------------
(* Bounds *)

MaxIdBytes == 7
MaxNegLen == 2
MaxBranches == 1
MaxRemoteRefs == 2
MaxNodes == 2
MaxArgs == 1
MaxListLen == 2
MaxRefs == 2
MaxWorkspaces == 2

(* Option<T>: None is <<>>, Some(x) is <<x>> *)
None == <<>>
Some(x) == <<x>>

Max(a, b) == IF a >= b THEN a ELSE b
Min(a, b) == IF a <= b THEN a ELSE b

-----------------------------------------------------------------------------
(* Commit / change identifiers *)

DefaultShortLen == 12

ByteVals == {10, 249}

HexDigits ==
    <<"0", "1", "2", "3", "4", "5", "6", "7", "8", "9", "a", "b", "c", "d", "e", "f">>

ReverseHexDigits ==
    <<"z", "y", "x", "w", "v", "u", "t", "s", "r", "q", "p", "o", "n", "m", "l", "k">>

RECURSIVE to_hex(_)
to_hex(bytes) ==
    IF bytes = <<>> THEN <<>>
    ELSE <<HexDigits[(Head(bytes) \div 16) + 1], HexDigits[(Head(bytes) % 16) + 1]>>
         \o to_hex(Tail(bytes))

to_reverse_hex(hex_str) ==
    [i \in 1..Len(hex_str) |->
        ReverseHexDigits[CHOOSE d \in 1..16 : HexDigits[d] = hex_str[i]]]

hex(self) ==
    IF self.space = "Commit" THEN to_hex(self.bytes)
    ELSE to_reverse_hex(to_hex(self.bytes))

truncate(s, new_len) ==
    IF new_len < Len(s) THEN SubSeq(s, 1, new_len) ELSE s

split_off(s, at) ==
    [head |-> SubSeq(s, 1, at), tail |-> SubSeq(s, at + 1, Len(s))]

short(self, total_len) == truncate(hex(self), total_len)

shortest_whole(self, plen, total_len) ==
    LET parts == split_off(hex(self), plen)
    IN  [prefix |-> parts.head, rest |-> parts.tail]

shortest_split_at_max(self, plen, total_len) ==
    LET parts == split_off(hex(self), Min(Len(hex(self)), Max(plen, total_len)))
    IN  [prefix |-> parts.head, rest |-> parts.tail]

shortest(self, plen, total_len) ==
    LET truncated == truncate(hex(self), Max(plen, total_len))
        parts == split_off(truncated, plen)
    IN  [prefix |-> parts.head, rest |-> parts.tail]

(* str::to_ascii_uppercase / to_ascii_lowercase: the ASCII letters change
   case, every other character is kept *)
LowerLetters ==
    <<"a", "b", "c", "d", "e", "f", "g", "h", "i", "j", "k", "l", "m",
      "n", "o", "p", "q", "r", "s", "t", "u", "v", "w", "x", "y", "z">>
UpperLetters ==
    <<"A", "B", "C", "D", "E", "F", "G", "H", "I", "J", "K", "L", "M",
      "N", "O", "P", "Q", "R", "S", "T", "U", "V", "W", "X", "Y", "Z">>

map_letter(ch, from, to) ==
    IF \E k \in 1..Len(from) : from[k] = ch
    THEN to[CHOOSE k \in 1..Len(from) : from[k] = ch]
    ELSE ch

to_ascii_uppercase(s) == [i \in 1..Len(s) |-> map_letter(s[i], LowerLetters, UpperLetters)]
to_ascii_lowercase(s) == [i \in 1..Len(s) |-> map_letter(s[i], UpperLetters, LowerLetters)]

(* ShortestIdPrefix::to_upper / to_lower *)
to_upper_prefix_only(self) ==
    [prefix |-> to_ascii_uppercase(self.prefix), rest |-> <<>>]

to_upper(self) ==
    [prefix |-> to_ascii_uppercase(self.prefix), rest |-> to_ascii_uppercase(self.rest)]

to_lower(self) ==
    [prefix |-> to_ascii_lowercase(self.prefix), rest |-> to_ascii_lowercase(self.rest)]

(* i64 -> usize: fails exactly for negative values *)
try_into_usize(l) == IF l >= 0 THEN Some(l) ELSE None

short_len_default_8(len) ==
    IF len = None THEN 8
    ELSE IF try_into_usize(len[1]) = None THEN 0 ELSE len[1]

short_len(len) ==
    IF len = None THEN DefaultShortLen
    ELSE IF try_into_usize(len[1]) = None THEN 0 ELSE len[1]

shortest_len(len) ==
    IF len = None THEN 0
    ELSE IF try_into_usize(len[1]) = None THEN 0 ELSE len[1]

-----------------------------------------------------------------------------
(* Ref targets, the view and ref names *)

CommitIds == <<"c1", "c2">>
BranchNames == <<"b1", "b2", "b3">>
RemoteNames == <<"git", "origin">>

Range(s) == {s[i] : i \in 1..Len(s)}

(* RefTarget: the sequence of added commit ids; absent has none, a
   conflicted one has several *)
AbsentTarget == <<>>
NormalTarget(c) == <<c>>
ConflictTarget == CommitIds
PresentTargets == {NormalTarget(c) : c \in Range(CommitIds)} \cup {ConflictTarget}
Targets == {AbsentTarget} \cup PresentTargets

is_present(target) == target # AbsentTarget
has_conflict(target) == Len(target) > 1
added_ids(target) == target

is_tracking(remote_ref) == remote_ref.tracking

is_local(ref_name) == ref_name.remote = None
is_remote(ref_name) == ref_name.remote # None

-----------------------------------------------------------------------------
(* RefNamesIndex *)

EmptyIndex == [c \in {} |-> <<>>]

insert_first_id(index, ids, name) ==
    IF ids = <<>> THEN index
    ELSE IF Head(ids) \in DOMAIN index
         THEN [index EXCEPT ![Head(ids)] = Append(@, name)]
         ELSE index @@ (Head(ids) :> <<name>>)

RECURSIVE insert(_, _, _)
insert(index, ids, name) ==
    IF ids = <<>> THEN index
    ELSE LET c == Head(ids)
             pushed == IF c \in DOMAIN index
                       THEN [index EXCEPT ![c] = Append(@, name)]
                       ELSE index @@ (c :> <<name>>)
         IN  insert(pushed, Tail(ids), name)

get(index, c) == IF c \in DOMAIN index THEN index[c] ELSE <<>>

local_synced_any(local_target, remote_refs) ==
    \E i \in 1..Len(remote_refs) :
        ~is_tracking(remote_refs[i]) \/ remote_refs[i].target = local_target

local_synced(local_target, remote_refs) ==
    \A i \in 1..Len(remote_refs) :
        ~is_tracking(remote_refs[i]) \/ remote_refs[i].target = local_target

remote_synced_untracked(local_target, remote_ref) ==
    remote_ref.target = local_target

remote_synced(local_target, remote_ref) ==
    is_tracking(remote_ref) /\ remote_ref.target = local_target

RECURSIVE insert_remote_refs(_, _, _, _)
insert_remote_refs(index, branch_name, local_target, remote_refs) ==
    IF remote_refs = <<>> THEN index
    ELSE LET remote_ref == Head(remote_refs)
             ref_name == [name |-> branch_name,
                          remote |-> Some(remote_ref.remote),
                          conflict |-> has_conflict(remote_ref.target),
                          synced |-> remote_synced(local_target, remote_ref)]
         IN  insert_remote_refs(insert(index, added_ids(remote_ref.target), ref_name),
                                branch_name, local_target, Tail(remote_refs))

insert_branch(index, branch) ==
    LET local_target == branch.local_target
        remote_refs == branch.remote_refs
        ref_name == [name |-> branch.name,
                     remote |-> None,
                     conflict |-> has_conflict(local_target),
                     synced |-> local_synced(local_target, remote_refs)]
        with_local == IF is_present(local_target)
                      THEN insert(index, added_ids(local_target), ref_name)
                      ELSE index
    IN  insert_remote_refs(with_local, branch.name, local_target, remote_refs)

RECURSIVE scan_branches(_, _)
scan_branches(index, branches) ==
    IF branches = <<>> THEN index
    ELSE scan_branches(insert_branch(index, Head(branches)), Tail(branches))

build_branches_index(v) == scan_branches(EmptyIndex, v.branches)

RECURSIVE scan_refs(_, _)
scan_refs(index, ref_pairs) ==
    IF ref_pairs = <<>> THEN index
    ELSE LET ref_name == [name |-> Head(ref_pairs).name,
                          remote |-> None,
                          conflict |-> has_conflict(Head(ref_pairs).target),
                          synced |-> TRUE]
         IN  scan_refs(insert(index, added_ids(Head(ref_pairs).target), ref_name),
                       Tail(ref_pairs))

build_ref_names_index(ref_pairs) == scan_refs(EmptyIndex, ref_pairs)

-----------------------------------------------------------------------------
(* CommitKeywordCache: a cell holds None or Some(rc); rc.instance tells the
   Rc allocations of one category apart *)

EmptyCache == [branches_index |-> None, tags_index |-> None, git_refs_index |-> None]
NoBuilds == [branches |-> 0, tags |-> 0, git_refs |-> 0]

branches_index_uncached(cache, n, v) ==
    LET rc == [cat |-> "branches", instance |-> n.branches + 1,
               index |-> build_branches_index(v)]
    IN  [cache |-> [cache EXCEPT !.branches_index = Some(rc)],
         builds |-> [n EXCEPT !.branches = @ + 1], rc |-> rc]

branches_index(cache, n, v) ==
    IF cache.branches_index # None
    THEN [cache |-> cache, builds |-> n, rc |-> cache.branches_index[1]]
    ELSE LET rc == [cat |-> "branches", instance |-> n.branches + 1,
                    index |-> build_branches_index(v)]
         IN  [cache |-> [cache EXCEPT !.branches_index = Some(rc)],
              builds |-> [n EXCEPT !.branches = @ + 1], rc |-> rc]

tags_index(cache, n, v) ==
    IF cache.tags_index # None
    THEN [cache |-> cache, builds |-> n, rc |-> cache.tags_index[1]]
    ELSE LET rc == [cat |-> "tags", instance |-> n.tags + 1,
                    index |-> build_ref_names_index(v.tags)]
         IN  [cache |-> [cache EXCEPT !.tags_index = Some(rc)],
              builds |-> [n EXCEPT !.tags = @ + 1], rc |-> rc]

git_refs_index(cache, n, v) ==
    IF cache.git_refs_index # None
    THEN [cache |-> cache, builds |-> n, rc |-> cache.git_refs_index[1]]
    ELSE LET rc == [cat |-> "git_refs", instance |-> n.git_refs + 1,
                    index |-> build_ref_names_index(v.git_refs)]
         IN  [cache |-> [cache EXCEPT !.git_refs_index = Some(rc)],
              builds |-> [n EXCEPT !.git_refs = @ + 1], rc |-> rc]

-----------------------------------------------------------------------------
(* Keyword and method resolver.  A property is [kind, name, self, index]:
   its kind, the name that produced it, whether its commit is the context
   commit or a list item, and the index Rc its closure captured. *)

KeywordNames ==
    {"description", "change_id", "commit_id", "parents", "author", "committer",
     "working_copies", "current_working_copy", "branches", "local_branches",
     "remote_branches", "tags", "git_refs", "git_head", "divergent", "hidden",
     "conflict", "empty", "root"}

NoProp == [kind |-> "", name |-> "", self |-> "", index |-> None]
NoError == [kind |-> "", type |-> "", name |-> ""]

no_such_keyword(name) == [kind |-> "NoSuchKeyword", type |-> "", name |-> name]
no_such_method(type, name) == [kind |-> "NoSuchMethod", type |-> type, name |-> name]
invalid_arguments(name) == [kind |-> "InvalidArguments", type |-> "", name |-> name]
type_mismatch(name) == [kind |-> "TypeMismatch", type |-> "", name |-> name]

build_commit_keyword_opt(self, cache, n, v, name) ==
    LET plain(kind) ==
            [found |-> TRUE,
             prop |-> [kind |-> kind, name |-> name, self |-> self, index |-> None],
             cache |-> cache, builds |-> n]
        indexed(got) ==
            [found |-> TRUE,
             prop |-> [kind |-> "RefNameList", name |-> name, self |-> self,
                       index |-> Some(got.rc)],
             cache |-> got.cache, builds |-> got.builds]
    IN  CASE name = "description" -> plain("String")
          [] name = "change_id" -> plain("CommitOrChangeId")
          [] name = "commit_id" -> plain("CommitOrChangeId")
          [] name = "parents" -> plain("CommitList")
          [] name = "author" -> plain("Signature")
          [] name = "committer" -> plain("Signature")
          [] name = "working_copies" -> plain("String")
          [] name = "current_working_copy" -> plain("Boolean")
          [] name = "branches" -> indexed(branches_index(cache, n, v))
          [] name = "local_branches" -> indexed(branches_index(cache, n, v))
          [] name = "remote_branches" -> indexed(branches_index(cache, n, v))
          [] name = "tags" -> indexed(tags_index(cache, n, v))
          [] name = "git_refs" -> indexed(git_refs_index(cache, n, v))
          [] name = "git_head" -> plain("RefNameList")
          [] name = "divergent" -> plain("Boolean")
          [] name = "hidden" -> plain("Boolean")
          [] name = "conflict" -> plain("Boolean")
          [] name = "empty" -> plain("Boolean")
          [] name = "root" -> plain("Boolean")
          [] OTHER -> [found |-> FALSE, prop |-> NoProp, cache |-> cache, builds |-> n]

Ok(prop, cache, n) ==
    [ok |-> TRUE, prop |-> prop, err |-> NoError, cache |-> cache, builds |-> n]
Err(err, cache, n) ==
    [ok |-> FALSE, prop |-> NoProp, err |-> err, cache |-> cache, builds |-> n]

build_commit_keyword_misnamed(cache, n, v, name) ==
    LET r == build_commit_keyword_opt("context", cache, n, v, name)
    IN  IF r.found THEN Ok(r.prop, r.cache, r.builds)
        ELSE Err(no_such_keyword("commit"), r.cache, r.builds)

build_commit_keyword(cache, n, v, name) ==
    LET r == build_commit_keyword_opt("context", cache, n, v, name)
    IN  IF r.found THEN Ok(r.prop, r.cache, r.builds)
        ELSE Err(no_such_keyword(name), r.cache, r.builds)

(* template_parser::expect_no_arguments / expect_arguments (0 required, 1
   optional) / template_builder::expect_integer_expression *)
expect_no_arguments(args) == args = <<>>
expect_optional_argument(args) == Len(args) <= 1
expect_integer_expression(arg) == arg = "Integer"

build_commit_method_args_first(recv, cache, n, v, name, args) ==
    IF ~expect_no_arguments(args) THEN Err(invalid_arguments(name), cache, n)
    ELSE LET r == build_commit_keyword_opt(recv.self, cache, n, v, name)
         IN  IF r.found THEN Ok(r.prop, r.cache, r.builds)
             ELSE Err(no_such_method("Commit", name), r.cache, r.builds)

build_commit_method(recv, cache, n, v, name, args) ==
    LET r == build_commit_keyword_opt(recv.self, cache, n, v, name)
    IN  IF r.found
        THEN IF expect_no_arguments(args) THEN Ok(r.prop, r.cache, r.builds)
             ELSE Err(invalid_arguments(name), r.cache, r.builds)
        ELSE Err(no_such_method("Commit", name), r.cache, r.builds)

MethodProp(recv, kind, name) ==
    [kind |-> kind, name |-> name, self |-> recv.self, index |-> recv.index]

build_ref_name_method(recv, cache, n, name, args) ==
    IF name \in {"name", "remote"}
    THEN IF expect_no_arguments(args) THEN Ok(MethodProp(recv, "String", name), cache, n)
         ELSE Err(invalid_arguments(name), cache, n)
    ELSE Err(no_such_method("RefName", name), cache, n)

parse_optional_integer(name, args) ==
    IF ~expect_optional_argument(args) THEN invalid_arguments(name)
    ELSE IF args # <<>> /\ ~expect_integer_expression(args[1]) THEN type_mismatch(name)
    ELSE NoError

build_commit_or_change_id_method(recv, cache, n, name, args) ==
    IF name \in {"short", "shortest"}
    THEN IF parse_optional_integer(name, args) # NoError
         THEN Err(parse_optional_integer(name, args), cache, n)
         ELSE Ok(MethodProp(recv, IF name = "short" THEN "String" ELSE "ShortestIdPrefix",
                            name), cache, n)
    ELSE Err(no_such_method("CommitOrChangeId", name), cache, n)

build_shortest_id_prefix_method(recv, cache, n, name, args) ==
    IF name \in {"prefix", "rest", "upper", "lower"}
    THEN IF expect_no_arguments(args)
         THEN Ok(MethodProp(recv, IF name \in {"prefix", "rest"} THEN "String"
                                  ELSE "ShortestIdPrefix", name), cache, n)
         ELSE Err(invalid_arguments(name), cache, n)
    ELSE Err(no_such_method("ShortestIdPrefix", name), cache, n)

ResolverKinds == {"Commit", "RefName", "CommitOrChangeId", "ShortestIdPrefix"}
ListKinds == {"CommitList", "RefNameList"}

build_method(recv, cache, n, v, name, args) ==
    CASE recv.kind = "Commit" -> build_commit_method(recv, cache, n, v, name, args)
      [] recv.kind = "RefName" -> build_ref_name_method(recv, cache, n, name, args)
      [] recv.kind = "CommitOrChangeId" ->
            build_commit_or_change_id_method(recv, cache, n, name, args)
      [] recv.kind = "ShortestIdPrefix" ->
            build_shortest_id_prefix_method(recv, cache, n, name, args)

(* the item property a list method hands to wrap_commit / wrap_ref_name *)
wrap_item(recv) ==
    [kind |-> IF recv.kind = "CommitList" THEN "Commit" ELSE "RefName",
     name |-> recv.name, self |-> "item", index |-> recv.index]

try_into_template(prop) == prop.kind \notin {"Commit", "CommitList"}

(* The variants of CommitTemplatePropertyKind other than Core *)
NonCoreKinds ==
    {"Commit", "CommitList", "RefName", "RefNameList", "CommitOrChangeId",
     "ShortestIdPrefix"}

(* |l| !l.is_empty() *)
not_is_empty(l) == ~(Len(l) = 0)

(* IntoTemplateProperty for the variants other than Core: None, or Some of
   the function the converted property applies to the value of the original *)
try_into_boolean_any_list(prop) ==
    CASE prop.kind \in {"CommitList", "RefNameList"} -> Some("is_empty")
      [] prop.kind \in NonCoreKinds -> None

try_into_boolean(prop) ==
    CASE prop.kind = "Commit" -> None
      [] prop.kind = "CommitList" -> Some("not_is_empty")
      [] prop.kind = "RefName" -> None
      [] prop.kind = "RefNameList" -> Some("not_is_empty")
      [] prop.kind = "CommitOrChangeId" -> None
      [] prop.kind = "ShortestIdPrefix" -> None

try_into_integer(prop) ==
    CASE prop.kind \in NonCoreKinds -> None

try_into_plain_text(prop) ==
    CASE prop.kind \in NonCoreKinds ->
            IF try_into_template(prop) THEN Some("PlainTextFormattedProperty") ELSE None

(* The boolean a converted property yields when the original yields l *)
extract_boolean(function, l) ==
    CASE function = "not_is_empty" -> not_is_empty(l)
      [] function = "is_empty" -> ~not_is_empty(l)

(* HexCounter::build_commit_property_opt of the example extension *)
hex_counter_build_commit_property_opt(self, name) ==
    IF name = "num_digits_in_id"
    THEN Some([kind |-> "Integer", name |-> name, self |-> self, index |-> None])
    ELSE None

-----------------------------------------------------------------------------
(* Evaluation of a built property for one commit *)

branches_filter(ref_name) == is_local(ref_name) \/ ~ref_name.synced

branches_keyword_unfiltered(index, c) == get(index, c)

branches_keyword(index, c) == SelectSeq(get(index, c), branches_filter)
local_branches_keyword(index, c) == SelectSeq(get(index, c), is_local)
remote_branches_keyword(index, c) == SelectSeq(get(index, c), is_remote)

(* extract_git_head: the git HEAD target of the view, read directly *)
LocalGitRemoteName == "git"

extract_git_head_synced(v, c) ==
    IF c \in Range(added_ids(v.git_head))
    THEN <<[name |-> "HEAD", remote |-> Some(LocalGitRemoteName),
            conflict |-> has_conflict(v.git_head), synced |-> TRUE]>>
    ELSE <<>>

extract_git_head(v, c) ==
    IF c \in Range(added_ids(v.git_head))
    THEN <<[name |-> "HEAD", remote |-> Some(LocalGitRemoteName),
            conflict |-> has_conflict(v.git_head), synced |-> FALSE]>>
    ELSE <<>>

(* A String is the sequence of the pieces pushed to it *)
RECURSIVE join(_, _)
join(names, sep) ==
    IF names = <<>> THEN <<>>
    ELSE IF Len(names) = 1 THEN Head(names)
    ELSE Head(names) \o <<sep>> \o join(Tail(names), sep)

(* Workspace ids in the order of their string comparison *)
WorkspaceIds == <<"default", "second", "third">>

(* wc_commit_ids.iter().sorted(): the (workspace id, commit id) entries of
   the map in ascending workspace id order, whatever order the map yields *)
RECURSIVE sorted_from(_, _)
sorted_from(wc_commit_ids, i) ==
    IF i > Len(WorkspaceIds) THEN <<>>
    ELSE (IF WorkspaceIds[i] \in DOMAIN wc_commit_ids
          THEN <<[workspace_id |-> WorkspaceIds[i],
                  wc_commit_id |-> wc_commit_ids[WorkspaceIds[i]]]>>
          ELSE <<>>) \o sorted_from(wc_commit_ids, i + 1)

sorted(wc_commit_ids) == sorted_from(wc_commit_ids, 1)

RECURSIVE working_copy_names(_, _)
working_copy_names(entries, c) ==
    IF entries = <<>> THEN <<>>
    ELSE (IF Head(entries).wc_commit_id = c
          THEN <<<<Head(entries).workspace_id, "@">>>>
          ELSE <<>>) \o working_copy_names(Tail(entries), c)

extract_working_copies_any_count(v, c) ==
    join(working_copy_names(sorted(v.wc_commit_ids), c), " ")

extract_working_copies(v, c) ==
    IF Cardinality(DOMAIN v.wc_commit_ids) <= 1 THEN <<>>
    ELSE join(working_copy_names(sorted(v.wc_commit_ids), c), " ")

(* Answers of the backend: Result<T, BackendError> *)
BackendOk(x) == [ok |-> TRUE, value |-> x]
BackendErr == [ok |-> FALSE]

(* Outcome of evaluating a property function: a value, or a panic raised by
   unwrap() on an Err *)
Returned(x) == [panicked |-> FALSE, value |-> x]
Panicked == [panicked |-> TRUE]

unwrap(r) == IF r.ok THEN Returned(r.value) ELSE Panicked

(* "conflict" => commit.has_conflict().unwrap() *)
conflict_keyword(st, c) == unwrap(st[c].has_conflict)

(* "empty": the tree of the single parent, or the merge of the parents'
   trees, compared with the commit's tree *)
empty_keyword(st, c) ==
    IF Len(st[c].parent_tree_ids) = 1
    THEN Returned(st[c].parent_tree_ids[1] = st[c].tree_id)
    ELSE LET parent_tree == unwrap(st[c].merge_commit_trees)
         IN  IF parent_tree.panicked THEN Panicked
             ELSE Returned(st[c].tree_id = parent_tree.value)

(* Formatter output: the pieces written, each under the label in force *)
piece(label, text) == [label |-> label, text |-> text]

(* Template<()> for RefName *)
format_ref_name_both_sigils(ref_name) ==
    <<piece("name", ref_name.name)>>
    \o (IF ref_name.remote # None
        THEN <<piece("", "@"), piece("remote", ref_name.remote[1])>>
        ELSE <<>>)
    \o (IF ref_name.conflict THEN <<piece("", "??")>> ELSE <<>>)
    \o (IF is_local(ref_name) /\ ~ref_name.synced THEN <<piece("", "*")>> ELSE <<>>)

format_ref_name(ref_name) ==
    <<piece("name", ref_name.name)>>
    \o (IF ref_name.remote # None
        THEN <<piece("", "@"), piece("remote", ref_name.remote[1])>>
        ELSE <<>>)
    \o (IF ref_name.conflict THEN <<piece("", "??")>>
        ELSE IF is_local(ref_name) /\ ~ref_name.synced THEN <<piece("", "*")>>
        ELSE <<>>)

(* Template<()> for Vec<RefName>: format_joined with " " *)
format_ref_names(ref_names) ==
    join([i \in 1..Len(ref_names) |-> format_ref_name(ref_names[i])], piece("", " "))

(* Template<()> for String *)
format_string(string) == [i \in 1..Len(string) |-> piece("", string[i])]

NoValue(prop) ==
    [kind |-> prop.kind, name |-> prop.name, evaluated |-> FALSE, panicked |-> FALSE,
     refs |-> <<>>, string |-> <<>>, boolean |-> FALSE, written |-> <<>>]

RefsValue(prop, refs) ==
    [NoValue(prop) EXCEPT !.evaluated = TRUE, !.refs = refs,
                          !.written = format_ref_names(refs)]

StringValue(prop, string) ==
    [NoValue(prop) EXCEPT !.evaluated = TRUE, !.string = string,
                          !.written = format_string(string)]

BooleanValue(prop, outcome) ==
    IF outcome.panicked THEN [NoValue(prop) EXCEPT !.panicked = TRUE]
    ELSE [NoValue(prop) EXCEPT !.evaluated = TRUE, !.boolean = outcome.value,
                               !.written = <<piece("", IF outcome.value THEN "true"
                                                       ELSE "false")>>]

(* The value a keyword property of the context commit yields for commit c,
   and what its template writes *)
evaluate(v, st, prop, c) ==
    IF prop.self # "context" THEN NoValue(prop)
    ELSE CASE prop.kind = "RefNameList" /\ prop.index # None ->
                RefsValue(prop,
                    CASE prop.name = "branches" ->
                            branches_keyword(prop.index[1].index, c)
                      [] prop.name = "local_branches" ->
                            local_branches_keyword(prop.index[1].index, c)
                      [] prop.name = "remote_branches" ->
                            remote_branches_keyword(prop.index[1].index, c)
                      [] OTHER -> get(prop.index[1].index, c))
           [] prop.kind = "RefNameList" /\ prop.name = "git_head" ->
                RefsValue(prop, extract_git_head(v, c))
           [] prop.kind = "String" /\ prop.name = "working_copies" ->
                StringValue(prop, extract_working_copies(v, c))
           [] prop.kind = "Boolean" /\ prop.name = "conflict" ->
                BooleanValue(prop, conflict_keyword(st, c))
           [] prop.kind = "Boolean" /\ prop.name = "empty" ->
                BooleanValue(prop, empty_keyword(st, c))
           [] OTHER -> NoValue(prop)

-----------------------------------------------------------------------------
(* One evaluation session: parse builds the template node by node, then the
   caller renders it for commits *)

IndexCategory(name) ==
    CASE name \in {"branches", "local_branches", "remote_branches"} -> {"branches"}
      [] name = "tags" -> {"tags"}
      [] name = "git_refs" -> {"git_refs"}
      [] OTHER -> {}

Abort(err) ==
    /\ pc' = "failed"
    /\ error' = Some(err)
    /\ props' = <<>>
    /\ keyword_cache' = EmptyCache

BuildKeyword(name) ==
    /\ pc = "building"
    /\ Len(props) < MaxNodes
    /\ LET r == build_commit_keyword(keyword_cache, builds, view, name)
       IN  /\ builds' = r.builds
           /\ IF r.ok
              THEN /\ props' = Append(props, r.prop)
                   /\ keyword_cache' = r.cache
                   /\ UNCHANGED <<pc, error>>
              ELSE Abort(r.err)
    /\ requested' = requested \cup IndexCategory(name)
    /\ last' = [op |-> "keyword", name |-> name, recv |-> "", args |-> <<>>]
    /\ UNCHANGED <<view, store, extension, ext_calls, out>>
    /\ UNCHANGED idVars

BuildMethod(name, args) ==
    /\ pc = "building"
    /\ props # <<>>
    /\ props[Len(props)].kind \in ResolverKinds
    /\ LET recv == props[Len(props)]
           r == build_method(recv, keyword_cache, builds, view, name, args)
       IN  /\ builds' = r.builds
           /\ IF r.ok
              THEN /\ props' = [props EXCEPT ![Len(props)] = r.prop]
                   /\ keyword_cache' = r.cache
                   /\ UNCHANGED <<pc, error>>
              ELSE Abort(r.err)
           /\ requested' = requested \cup
                  (IF recv.kind = "Commit" THEN IndexCategory(name) ELSE {})
           /\ last' = [op |-> "method", name |-> name, recv |-> recv.kind, args |-> args]
    /\ UNCHANGED <<view, store, extension, ext_calls, out>>
    /\ UNCHANGED idVars

WrapItem ==
    /\ pc = "building"
    /\ props # <<>>
    /\ props[Len(props)].kind \in ListKinds
    /\ props' = [props EXCEPT ![Len(props)] = wrap_item(@)]
    /\ last' = [op |-> "item", name |-> "", recv |-> props[Len(props)].kind, args |-> <<>>]
    /\ UNCHANGED <<view, store, extension, ext_calls, keyword_cache, builds, pc, error, requested, out>>
    /\ UNCHANGED idVars

FinishBuild ==
    /\ pc = "building"
    /\ IF \A i \in 1..Len(props) : try_into_template(props[i])
       THEN /\ pc' = "built"
            /\ keyword_cache' = EmptyCache
            /\ UNCHANGED <<props, error>>
       ELSE Abort(type_mismatch(""))
    /\ last' = [op |-> "finish", name |-> "", recv |-> "", args |-> <<>>]
    /\ UNCHANGED <<view, store, extension, ext_calls, builds, requested, out>>
    /\ UNCHANGED idVars

(* The values written before the first property whose evaluation panics *)
RECURSIVE rendered(_)
rendered(values) ==
    IF values = <<>> \/ Head(values).panicked THEN <<>>
    ELSE <<Head(values)>> \o rendered(Tail(values))

Render(c) ==
    /\ pc = "built"
    /\ LET values == [i \in 1..Len(props) |-> evaluate(view, store, props[i], c)]
       IN  /\ out' = [commit |-> c, values |-> rendered(values)]
           /\ pc' = IF \E i \in 1..Len(values) : values[i].panicked
                    THEN "panicked" ELSE pc
    /\ last' = [op |-> "render", name |-> "", recv |-> "", args |-> <<>>]
    /\ UNCHANGED <<view, store, extension, ext_calls, keyword_cache, builds, props, error,
                   requested>>
    /\ UNCHANGED idVars

(* Conversions asked of the property on top of the build, and for
   to-boolean the value of the converted property when the original yields
   a list of n items *)
Converted(method, prop, conversion, value) ==
    /\ call' = [method |-> method, len |-> None]
    /\ result' = [kind |-> "Conversion", of |-> prop.kind,
                  converted |-> conversion # None, value |-> value]
    /\ UNCHANGED <<id, prefix_len>>
    /\ UNCHANGED sessionVars

Convertible ==
    /\ pc = "building"
    /\ props # <<>>
    /\ props[Len(props)].kind \in NonCoreKinds

TryIntoBoolean(n) ==
    /\ Convertible
    /\ LET prop == props[Len(props)]
           conversion == try_into_boolean(prop)
           l == [i \in 1..n |-> "item"]
       IN  Converted("try_into_boolean", prop, conversion,
                     IF conversion = None THEN None
                     ELSE Some([list |-> l, boolean |-> extract_boolean(conversion[1], l)]))

TryIntoInteger ==
    /\ Convertible
    /\ LET prop == props[Len(props)]
       IN  Converted("try_into_integer", prop, try_into_integer(prop), None)

TryIntoPlainText ==
    /\ Convertible
    /\ LET prop == props[Len(props)]
       IN  Converted("try_into_plain_text", prop, try_into_plain_text(prop), None)

TryIntoTemplate ==
    /\ Convertible
    /\ LET prop == props[Len(props)]
       IN  Converted("try_into_template", prop,
                     IF try_into_template(prop) THEN Some("into_template") ELSE None, None)

-----------------------------------------------------------------------------
(* Input sets *)

RECURSIVE ByteSeqs(_)
ByteSeqs(n) ==
    IF n = 0 THEN {<<>>}
    ELSE {<<b>> \o s : b \in ByteVals, s \in ByteSeqs(n - 1)}

Ids == [space : {"Commit", "Change"}, bytes : ByteSeqs(MaxIdBytes)]

LenArgs == {None} \cup {Some(n) : n \in (0 - MaxNegLen)..(2 * MaxIdBytes + 1)}

NoWorkspaces == [w \in {} |-> ""]
EmptyView ==
    [branches |-> <<>>, tags |-> <<>>, git_refs |-> <<>>, git_head |-> AbsentTarget,
     wc_commit_ids |-> NoWorkspaces]

(* A store whose backend answers every read *)
DefaultStore ==
    [c \in Range(CommitIds) |->
        [tree_id |-> "t1", parent_tree_ids |-> <<"t2">>,
         has_conflict |-> BackendOk(FALSE), merge_commit_trees |-> BackendOk("t2")]]
NoRequest == [op |-> "none", name |-> "", recv |-> "", args |-> <<>>]
NoOutput == [commit |-> "", values |-> <<>>]

NoCall == [method |-> "none", len |-> None]
NoResult == [kind |-> "None"]

Short(len) ==
    /\ pc = "idle"
    /\ result = NoResult
    /\ call' = [method |-> "short", len |-> len]
    /\ result' = [kind |-> "String", text |-> short(id, short_len(len))]
    /\ UNCHANGED <<id, prefix_len>>
    /\ UNCHANGED sessionVars

Shortest(len) ==
    /\ pc = "idle"
    /\ result = NoResult
    /\ call' = [method |-> "shortest", len |-> len]
    /\ result' = [kind |-> "ShortestIdPrefix"] @@ shortest(id, prefix_len, shortest_len(len))
    /\ UNCHANGED <<id, prefix_len>>
    /\ UNCHANGED sessionVars

ToUpper ==
    /\ pc = "idle"
    /\ result.kind = "ShortestIdPrefix"
    /\ call' = [method |-> "upper", len |-> call.len]
    /\ result' = [kind |-> "ShortestIdPrefix"]
                    @@ to_upper([prefix |-> result.prefix, rest |-> result.rest])
    /\ UNCHANGED <<id, prefix_len>>
    /\ UNCHANGED sessionVars

ToLower ==
    /\ pc = "idle"
    /\ result.kind = "ShortestIdPrefix"
    /\ call' = [method |-> "lower", len |-> call.len]
    /\ result' = [kind |-> "ShortestIdPrefix"]
                    @@ to_lower([prefix |-> result.prefix, rest |-> result.rest])
    /\ UNCHANGED <<id, prefix_len>>
    /\ UNCHANGED sessionVars

-----------------------------------------------------------------------------
(* Evaluation of id methods on one id value *)

InitId ==
    /\ id \in Ids
    /\ prefix_len \in 1..(2 * MaxIdBytes)
    /\ call = NoCall
    /\ result = NoResult
    /\ view = EmptyView
    /\ store = DefaultStore
    /\ extension = "none"
    /\ ext_calls = {}
    /\ keyword_cache = EmptyCache
    /\ builds = NoBuilds
    /\ props = <<>>
    /\ pc = "idle"
    /\ error = None
    /\ requested = {}
    /\ last = NoRequest
    /\ out = NoOutput

NextId ==
    \/ \E len \in LenArgs : Short(len)
    \/ \E len \in LenArgs : Shortest(len)

SpecId == InitId /\ [][NextId]_vars

(* Evaluation of shortest and of the case transforms of its result, on ids
   of every length whose bytes repeat with period two *)
CaseIds ==
    [space : {"Commit", "Change"},
     bytes : UNION {{[i \in 1..n |-> IF i % 2 = 1 THEN b1 ELSE b2] :
                        b1 \in ByteVals, b2 \in ByteVals} : n \in 1..MaxIdBytes}]

InitCase ==
    /\ id \in CaseIds
    /\ prefix_len \in 1..Len(hex(id))
    /\ call = NoCall
    /\ result = NoResult
    /\ view = EmptyView
    /\ store = DefaultStore
    /\ extension = "none"
    /\ ext_calls = {}
    /\ keyword_cache = EmptyCache
    /\ builds = NoBuilds
    /\ props = <<>>
    /\ pc = "idle"
    /\ error = None
    /\ requested = {}
    /\ last = NoRequest
    /\ out = NoOutput

NextCase ==
    \/ \E len \in LenArgs : Shortest(len)
    \/ ToUpper
    \/ ToLower

SpecCase == InitCase /\ [][NextCase]_vars

-----------------------------------------------------------------------------
(* Views *)

RECURSIVE RemoteRefSeqs(_)
RemoteRefSeqs(k) ==
    IF k > Len(RemoteNames) THEN {<<>>}
    ELSE RemoteRefSeqs(k + 1) \cup
         {<<[remote |-> RemoteNames[k], target |-> t, tracking |-> tr]>> \o s :
            t \in PresentTargets, tr \in BOOLEAN, s \in RemoteRefSeqs(k + 1)}

RECURSIVE RemoteRefCount(_)
RemoteRefCount(branches) ==
    IF branches = <<>> THEN 0
    ELSE Len(Head(branches).remote_refs) + RemoteRefCount(Tail(branches))

(* Branches b1..bk of a view, in name order; a branch has a local target or
   a remote ref, and the view holds at most MaxRemoteRefs remote refs *)
BranchesOf(k, locals, remotes) ==
    [i \in 1..k |-> [name |-> BranchNames[i], local_target |-> locals[i],
                     remote_refs |-> remotes[i]]]

IsIndexView(v) ==
    /\ RemoteRefCount(v.branches) <= MaxRemoteRefs
    /\ \A i \in 1..Len(v.branches) :
          is_present(v.branches[i].local_target) \/ v.branches[i].remote_refs # <<>>

SessionBranch ==
    [name |-> "b1", local_target |-> NormalTarget("c1"),
     remote_refs |-> <<[remote |-> "origin", target |-> NormalTarget("c2"),
                        tracking |-> TRUE]>>]

SessionViews ==
    {[branches |-> <<SessionBranch>>,
      tags |-> <<[name |-> "v1", target |-> NormalTarget("c1")]>>,
      git_refs |-> <<[name |-> "refs/heads/b1", target |-> NormalTarget("c1")]>>,
      git_head |-> NormalTarget("c1"),
      wc_commit_ids |-> ("default" :> "c1")],
     [branches |-> <<>>,
      tags |-> <<>>,
      git_refs |-> <<[name |-> "refs/tags/v1", target |-> ConflictTarget]>>,
      git_head |-> AbsentTarget,
      wc_commit_ids |-> NoWorkspaces]}

RECURSIVE ArgLists(_)
ArgLists(k) ==
    IF k = 0 THEN {<<>>}
    ELSE ArgLists(k - 1) \cup
         {Append(a, lit) : a \in {b \in ArgLists(k - 1) : Len(b) = k - 1},
                           lit \in {"Integer", "String"}}

MethodNames == {"name", "remote", "short", "shortest", "prefix", "rest", "upper", "lower"}
UnknownNames == {"foo", "num_digits_in_id"}

-----------------------------------------------------------------------------
(* Sessions *)

InitSession ==
    /\ id = [space |-> "Commit", bytes |-> <<>>]
    /\ prefix_len = 1
    /\ call = NoCall
    /\ result = NoResult
    /\ ext_calls = {}
    /\ keyword_cache = EmptyCache
    /\ builds = NoBuilds
    /\ props = <<>>
    /\ pc = "building"
    /\ error = None
    /\ requested = {}
    /\ last = NoRequest
    /\ out = NoOutput

(* Sessions whose templates mix index-backed keywords with others *)
CacheNames ==
    {"branches", "local_branches", "remote_branches", "tags", "git_refs", "git_head",
     "parents", "description", "foo"}

Init ==
    /\ InitSession
    /\ view \in SessionViews
    /\ store = DefaultStore
    /\ extension = "none"

Next ==
    \/ \E name \in CacheNames : BuildKeyword(name)
    \/ \E name \in CacheNames, args \in ArgLists(MaxArgs) : BuildMethod(name, args)
    \/ WrapItem
    \/ FinishBuild
    \/ \E c \in Range(CommitIds) : Render(c)

Spec == Init /\ [][Next]_vars

(* Sessions over every view of the branches, with a one-keyword template *)
InitIndex ==
    /\ InitSession
    /\ \E k \in 0..MaxBranches :
          \E locals \in [1..k -> Targets], remotes \in [1..k -> RemoteRefSeqs(1)] :
             /\ view = [branches |-> BranchesOf(k, locals, remotes),
                        tags |-> <<>>, git_refs |-> <<>>, git_head |-> AbsentTarget,
                        wc_commit_ids |-> NoWorkspaces]
             /\ IsIndexView(view)
    /\ store = DefaultStore
    /\ extension = "none"

NextIndex ==
    \/ \E name \in {"branches", "local_branches", "remote_branches"} :
            props = <<>> /\ BuildKeyword(name)
    \/ FinishBuild
    \/ \E c \in Range(CommitIds) : Render(c)

SpecIndex == InitIndex /\ [][NextIndex]_vars

(* Sessions that resolve one expression: a keyword and a chain of methods,
   over every name, with and without the example extension *)
InitResolve ==
    /\ InitSession
    /\ view \in SessionViews
    /\ store = DefaultStore
    /\ extension \in {"none", "HexCounter"}

NextResolve ==
    \/ \E name \in KeywordNames \cup UnknownNames : props = <<>> /\ BuildKeyword(name)
    \/ \E name \in KeywordNames \cup MethodNames \cup UnknownNames,
          args \in ArgLists(MaxArgs) : BuildMethod(name, args)
    \/ WrapItem
    \/ FinishBuild

SpecResolve == InitResolve /\ [][NextResolve]_vars

(* Sessions over every view of the tags and the git refs, with a
   one-keyword template *)
TagNames == <<"v1", "v2", "v3">>
GitRefNames == <<"refs/heads/b1", "refs/heads/b2", "refs/tags/v1">>

RefPairsOf(names, targets) ==
    [i \in 1..Len(targets) |-> [name |-> names[i], target |-> targets[i]]]

InitRefs ==
    /\ InitSession
    /\ \E kt \in 0..MaxRefs, kg \in 0..MaxRefs :
          \E tag_targets \in [1..kt -> PresentTargets],
             git_ref_targets \in [1..kg -> PresentTargets] :
             view = [EmptyView EXCEPT !.tags = RefPairsOf(TagNames, tag_targets),
                                      !.git_refs = RefPairsOf(GitRefNames, git_ref_targets)]
    /\ store = DefaultStore
    /\ extension = "none"

NextRefs ==
    \/ \E name \in {"tags", "git_refs"} : props = <<>> /\ BuildKeyword(name)
    \/ FinishBuild
    \/ \E c \in Range(CommitIds) : Render(c)

SpecRefs == InitRefs /\ [][NextRefs]_vars

(* Sessions over every git HEAD target and every set of workspaces of the
   view, with a one-keyword template *)
InitRepo ==
    /\ InitSession
    /\ \E base \in SessionViews, git_head \in Targets :
          \E workspaces \in SUBSET Range(WorkspaceIds) :
             /\ Cardinality(workspaces) <= MaxWorkspaces
             /\ \E wc_commit_ids \in [workspaces -> Range(CommitIds)] :
                   view = [base EXCEPT !.git_head = git_head,
                                       !.wc_commit_ids = wc_commit_ids]
    /\ store = DefaultStore
    /\ extension = "none"

NextRepo ==
    \/ \E name \in {"git_head", "working_copies"} : props = <<>> /\ BuildKeyword(name)
    \/ FinishBuild
    \/ \E c \in Range(CommitIds) : Render(c)

SpecRepo == InitRepo /\ [][NextRepo]_vars

(* Sessions over every answer of the backend for the trees of the commits,
   with templates of the tree keywords *)
CommitData ==
    [tree_id : {"t1"},
     parent_tree_ids : {<<>>, <<"t1">>, <<"t2">>, <<"t1", "t2">>},
     has_conflict : {BackendOk(TRUE), BackendOk(FALSE), BackendErr},
     merge_commit_trees : {BackendOk("t1"), BackendOk("t2"), BackendErr}]

InitRender ==
    /\ InitSession
    /\ view = EmptyView
    /\ store \in [Range(CommitIds) -> CommitData]
    /\ extension = "none"

NextRender ==
    \/ \E name \in {"conflict", "empty"} : BuildKeyword(name)
    \/ FinishBuild
    \/ \E c \in Range(CommitIds) : Render(c)

SpecRender == InitRender /\ [][NextRender]_vars

(* Sessions that build one expression of any kind and ask for conversions
   of it *)
InitConvert ==
    /\ InitSession
    /\ view \in SessionViews
    /\ store = DefaultStore
    /\ extension = "none"

NextConvert ==
    \/ \E name \in KeywordNames : props = <<>> /\ BuildKeyword(name)
    \/ \E name \in KeywordNames \cup MethodNames, args \in ArgLists(MaxArgs) :
            BuildMethod(name, args)
    \/ WrapItem
    \/ \E n \in 0..MaxListLen : TryIntoBoolean(n)
    \/ TryIntoInteger
    \/ TryIntoPlainText
    \/ TryIntoTemplate

SpecConvert == InitConvert /\ [][NextConvert]_vars

-----------------------------------------------------------------------------
(* Claims about the identifier model (checked under SpecId) *)

HexLen == Len(hex(id))

IsShortest == call.method = "shortest" /\ result.kind = "ShortestIdPrefix"

(* C1 as stated: shortest(0).prefix concatenated with shortest(0).rest is
   hex(), whatever unique-prefix length the uniqueness service reports. *)
C1_RoundTripOriginal ==
    (IsShortest /\ call.len = Some(0))
        => result.prefix \o result.rest = hex(id)

(* C1 amended: shortest(0).prefix concatenated with shortest(0).rest is the
   first u characters of hex(), u being the reported unique-prefix length,
   and rest is empty; the concatenation is hex() exactly when u is the full
   hex length. *)
C1_ShortestZeroIsUniquePrefix ==
    (IsShortest /\ call.len = Some(0))
        => /\ result.prefix \o result.rest = SubSeq(hex(id), 1, prefix_len)
           /\ result.rest = <<>>
           /\ (result.prefix \o result.rest = hex(id)) <=> (prefix_len = HexLen)

C1_Witness ==
    /\ IsShortest
    /\ call.len = Some(0)
    /\ id.space = "Change"
    /\ prefix_len < HexLen
    /\ result.prefix # <<>>

(* C2 as stated: shortest(min) splits hex() at position max(u, min): the
   prefix has length max(u, min) and rest is the remaining suffix of hex(). *)
C2_SplitAtMaxOriginal ==
    (IsShortest /\ call.len # None /\ call.len[1] >= 0)
        => LET at == Max(prefix_len, call.len[1])
           IN  /\ Len(result.prefix) = at
               /\ result.rest = SubSeq(hex(id), at + 1, HexLen)

(* C2 amended: shortest(min) keeps the first min(L, max(u, min)) characters
   of hex() and splits them at position u: prefix is the first u characters
   (its length is u whatever min is) and rest is characters u+1 up to
   min(L, max(u, min)). *)
C2_SplitAtUniqueLen ==
    (IsShortest /\ call.len # None /\ call.len[1] >= 0)
        => LET total == Min(HexLen, Max(prefix_len, call.len[1]))
           IN  /\ Len(result.prefix) = prefix_len
               /\ result.prefix = SubSeq(hex(id), 1, prefix_len)
               /\ result.rest = SubSeq(hex(id), prefix_len + 1, total)

C2_Witness ==
    /\ IsShortest
    /\ call.len # None
    /\ call.len[1] > prefix_len
    /\ call.len[1] < HexLen
    /\ result.rest # <<>>

(* C3: short(n) is the first min(n, L) characters of hex() (the whole hex
   string, never padded, for n >= L); a negative n counts as 0 and gives the
   empty string; an absent argument behaves as n = 12. *)
C3_ShortTruncates ==
    (call.method = "short" /\ result.kind = "String")
        => LET n == IF call.len = None THEN 12
                    ELSE IF call.len[1] < 0 THEN 0 ELSE call.len[1]
           IN  /\ result.text = SubSeq(hex(id), 1, Min(n, HexLen))
               /\ Len(result.text) <= HexLen
               /\ (n >= HexLen => result.text = hex(id))
               /\ (call.len # None /\ call.len[1] < 0 => result.text = <<>>)

C3_Witness ==
    /\ call.method = "short"
    /\ call.len = None
    /\ id.space = "Commit"
    /\ HexLen > 12
    /\ Len(result.text) = 12

-----------------------------------------------------------------------------
(* Claims about the branches index (checked under SpecIndex) *)

PropCells == {props[i].index[1] : i \in {j \in 1..Len(props) : props[j].index # None}}
CacheCells ==
    {keyword_cache[f][1] : f \in {g \in DOMAIN keyword_cache : keyword_cache[g] # None}}
Cells(cat) == {rc \in PropCells \cup CacheCells : rc.cat = cat}

Bucket(rc, c) == IF c \in DOMAIN rc.index THEN rc.index[c] ELSE <<>>

EntriesOf(bucket, name, remote) ==
    {k \in 1..Len(bucket) : bucket[k].name = name /\ bucket[k].remote = remote}

(* C4: the local RefName of a branch with a present local target is synced
   iff every tracking remote entry of the branch has the local target;
   non-tracking remotes never count. *)
C4_LocalSyncedIffTrackingRemotesAgree ==
    \A rc \in Cells("branches") : \A i \in 1..Len(view.branches) :
        LET b == view.branches[i]
            tracked == {j \in 1..Len(b.remote_refs) : b.remote_refs[j].tracking}
            agree == \A j \in tracked : b.remote_refs[j].target = b.local_target
        IN  b.local_target # <<>> =>
                \A c \in Range(b.local_target) :
                    LET locals == EntriesOf(Bucket(rc, c), b.name, <<>>)
                    IN  /\ Cardinality(locals) = 1
                        /\ \A k \in locals : Bucket(rc, c)[k].synced = agree
                        /\ (tracked = {} => \A k \in locals : Bucket(rc, c)[k].synced)

C4_Witness ==
    /\ pc = "built"
    /\ \E rc \in Cells("branches") : \E i \in 1..Len(view.branches) :
        LET b == view.branches[i]
        IN  /\ b.local_target = <<"c1">>
            /\ Len(b.remote_refs) = 2
            /\ ~b.remote_refs[1].tracking /\ b.remote_refs[1].target = <<"c2">>
            /\ b.remote_refs[2].tracking /\ b.remote_refs[2].target = <<"c1">>
            /\ \E k \in EntriesOf(Bucket(rc, "c1"), b.name, <<>>) :
                    Bucket(rc, "c1")[k].synced

(* C5: every remote entry of every branch has its RefName in the index, with
   or without a local target, and that RefName is synced iff the remote is
   tracking and its target is the branch's local target. *)
C5_RemoteSyncedIffTrackingAndEqual ==
    \A rc \in Cells("branches") :
        /\ \A i \in 1..Len(view.branches) :
            LET b == view.branches[i]
            IN  \A j \in 1..Len(b.remote_refs) :
                    LET rr == b.remote_refs[j]
                    IN  \A c \in Range(rr.target) :
                            LET es == EntriesOf(Bucket(rc, c), b.name, <<rr.remote>>)
                            IN  /\ Cardinality(es) = 1
                                /\ \A k \in es :
                                      Bucket(rc, c)[k].synced =
                                          (rr.tracking /\ rr.target = b.local_target)
        /\ \A c \in DOMAIN rc.index : \A k \in 1..Len(rc.index[c]) :
              rc.index[c][k].remote # <<>> =>
                  \E i \in 1..Len(view.branches) :
                      \E j \in 1..Len(view.branches[i].remote_refs) :
                          /\ view.branches[i].name = rc.index[c][k].name
                          /\ <<view.branches[i].remote_refs[j].remote>> = rc.index[c][k].remote
                          /\ c \in Range(view.branches[i].remote_refs[j].target)

C5_Witness ==
    /\ pc = "built"
    /\ \E rc \in Cells("branches") : \E i \in 1..Len(view.branches) :
        LET b == view.branches[i]
        IN  /\ b.local_target = <<"c1">>
            /\ Len(b.remote_refs) = 1
            /\ ~b.remote_refs[1].tracking /\ b.remote_refs[1].target = <<"c1">>
            /\ \E k \in EntriesOf(Bucket(rc, "c1"), b.name, <<b.remote_refs[1].remote>>) :
                    ~Bucket(rc, "c1")[k].synced

IsLocalRef(r) == r.remote = <<>>
IsRemoteRef(r) == r.remote # <<>>
IsLocalOrUnsyncedRemote(r) == r.remote = <<>> \/ (r.remote # <<>> /\ r.synced = FALSE)

(* C6: for a commit, branches yields the entries of its bucket that are
   local or unsynced remote, local_branches the local ones, remote_branches
   all remote ones whatever their synced flag, each in bucket order. *)
C6_BranchKeywordsFilterBucket ==
    out.commit # "" =>
        \A i \in 1..Len(out.values) :
            LET val == out.values[i]
                bucket == Bucket(props[i].index[1], out.commit)
            IN  (val.evaluated /\ props[i].index[1].cat = "branches") =>
                    /\ val.name = "branches" =>
                          val.refs = SelectSeq(bucket, IsLocalOrUnsyncedRemote)
                    /\ val.name = "local_branches" =>
                          val.refs = SelectSeq(bucket, IsLocalRef)
                    /\ val.name = "remote_branches" =>
                          val.refs = SelectSeq(bucket, IsRemoteRef)

C6_Witness ==
    /\ out.commit # ""
    /\ Len(out.values) = 1
    /\ out.values[1].name = "branches"
    /\ Len(Bucket(props[1].index[1], out.commit)) = 3
    /\ Len(out.values[1].refs) = 2

-----------------------------------------------------------------------------
(* Claims about the session (checked under Spec) *)

Categories == {"branches", "tags", "git_refs"}

(* C7: within a session each of the three indexes is built at most once,
   at the moment a keyword of its category is resolved and never otherwise
   (so never by a render, and never for a category no keyword names), and
   all properties of a category hold the same index instance. *)
C7_IndexBuiltOncePerCategoryOnDemand ==
    \A cat \in Categories :
        /\ builds[cat] <= 1
        /\ builds[cat] = (IF cat \in requested THEN 1 ELSE 0)
        /\ Cardinality(Cells(cat)) <= 1
        /\ \A rc \in Cells(cat) : rc.instance = 1

C7_Witness ==
    /\ pc = "built"
    /\ out.commit # ""
    /\ Len(props) = 2
    /\ props[1].name = "branches" /\ props[2].name = "local_branches"
    /\ props[1].index = props[2].index
    /\ builds = [branches |-> 1, tags |-> 0, git_refs |-> 0]

-----------------------------------------------------------------------------
(* Claims about the resolver (checked under SpecResolve) *)

Failed(err) == pc = "failed" /\ error = <<err>> /\ props = <<>>

(* C8: a bare keyword goes to the built-in table first; for a name the table
   lacks the extension's keyword resolver is consulted next, and
   NoSuchKeyword is produced only after the extension declined it. *)
C8_ExtensionConsultedBeforeNoSuchKeyword ==
    /\ (last.op = "keyword" /\ last.name \in KeywordNames) => last.name \notin ext_calls
    /\ (extension # "none" /\ last.op = "keyword" /\ last.name \notin KeywordNames) =>
            /\ last.name \in ext_calls
            /\ pc = "failed" =>
                  hex_counter_build_commit_property_opt("context", last.name) = <<>>

(* C9: with no extension, an unknown bare keyword fails with NoSuchKeyword
   naming it, an unknown method on Commit, RefName, CommitOrChangeId or
   ShortestIdPrefix fails with NoSuchMethod carrying that type name and the
   method name, and a failed build leaves an error and no template. *)
C9_UnknownNamesFail ==
    extension = "none" =>
        /\ (last.op = "keyword" /\ last.name \notin KeywordNames) =>
              Failed([kind |-> "NoSuchKeyword", type |-> "", name |-> last.name])
        /\ (last.op = "method" /\
            \/ last.recv = "Commit" /\ last.name \notin KeywordNames
            \/ last.recv = "RefName" /\ last.name \notin {"name", "remote"}
            \/ last.recv = "CommitOrChangeId" /\ last.name \notin {"short", "shortest"}
            \/ last.recv = "ShortestIdPrefix" /\
                   last.name \notin {"prefix", "rest", "upper", "lower"}) =>
              Failed([kind |-> "NoSuchMethod", type |-> last.recv, name |-> last.name])
        /\ pc = "failed" => (error # <<>> /\ props = <<>>)
        /\ pc # "failed" => error = <<>>

C9_Witness ==
    /\ extension = "none"
    /\ last.op = "method"
    /\ Failed([kind |-> "NoSuchMethod", type |-> "ShortestIdPrefix", name |-> "foo"])

(* C10: a method call on a Commit value resolves through the keyword table:
   a table name with no arguments gives a property of the kind the keyword
   gives, a table name with arguments fails with InvalidArguments, and a
   name outside the table fails as an unknown Commit method whatever the
   arguments. *)
C10_CommitMethodIsKeyword ==
    (last.op = "method" /\ last.recv = "Commit") =>
        IF last.name \in KeywordNames
        THEN IF last.args = <<>>
             THEN /\ pc = "building"
                  /\ error = <<>>
                  /\ props # <<>>
                  /\ props[Len(props)].kind =
                        build_commit_keyword(EmptyCache, NoBuilds, view, last.name).prop.kind
             ELSE Failed([kind |-> "InvalidArguments", type |-> "", name |-> last.name])
        ELSE Failed([kind |-> "NoSuchMethod", type |-> "Commit", name |-> last.name])

C10_Witness ==
    /\ last.op = "method"
    /\ last.recv = "Commit"
    /\ last.name = "foo"
    /\ last.args # <<>>
    /\ Failed([kind |-> "NoSuchMethod", type |-> "Commit", name |-> "foo"])

-----------------------------------------------------------------------------
(* Claims about the conversions (checked under SpecConvert) *)

IsConversion == result.kind = "Conversion"

TemplateKinds == {"RefName", "RefNameList", "CommitOrChangeId", "ShortestIdPrefix"}

(* C11: of the kinds other than Core, to-boolean exists only for CommitList
   and RefNameList and evaluates to "the list is non-empty"; to-integer
   exists for none; to-template exists for RefName, RefNameList,
   CommitOrChangeId and ShortestIdPrefix and not for Commit or CommitList;
   to-plain-text exists for a kind exactly when to-template does; a missing
   conversion yields no value at all. *)
C11_ConversionsOfNonCoreKinds ==
    IsConversion =>
        /\ call.method = "try_into_boolean" =>
              /\ result.converted <=> result.of \in {"CommitList", "RefNameList"}
              /\ result.converted =>
                    /\ result.value # None
                    /\ result.value[1].boolean <=> Len(result.value[1].list) > 0
        /\ call.method = "try_into_integer" => ~result.converted
        /\ call.method = "try_into_template" =>
              (result.converted <=> result.of \in TemplateKinds)
        /\ call.method = "try_into_plain_text" =>
              (result.converted <=> result.of \in TemplateKinds)
        /\ ~result.converted => result.value = None

C11_Witness ==
    /\ IsConversion
    /\ call.method = "try_into_boolean"
    /\ result.of = "RefNameList"
    /\ result.value = Some([list |-> <<>>, boolean |-> FALSE])

-----------------------------------------------------------------------------
(* Claims about the tags and git refs indexes (checked under SpecRefs) *)

RefNameOf(ref_pair) ==
    [name |-> ref_pair.name, remote |-> <<>>, conflict |-> Len(ref_pair.target) > 1,
     synced |-> TRUE]

RECURSIVE RefsContaining(_, _)
RefsContaining(ref_pairs, c) ==
    IF ref_pairs = <<>> THEN <<>>
    ELSE (IF \E k \in 1..Len(Head(ref_pairs).target) : Head(ref_pairs).target[k] = c
          THEN <<RefNameOf(Head(ref_pairs))>> ELSE <<>>)
         \o RefsContaining(Tail(ref_pairs), c)

ScannedRefs(cat) == IF cat = "tags" THEN view.tags ELSE view.git_refs

(* C12: in an index built from the refs of a view, the bucket of every
   commit id holds exactly the RefNames of the refs whose target contains
   the id, in scan order, and is empty when there is none; a conflicted ref
   puts an equal RefName with conflict set in the bucket of each of its
   ids; the keyword renders the bucket of the commit. *)
C12_BucketsHoldRefsContainingId ==
    /\ \A cat \in {"tags", "git_refs"} : \A rc \in Cells(cat) :
          \A c \in Range(CommitIds) :
              Bucket(rc, c) = RefsContaining(ScannedRefs(cat), c)
    /\ out.commit # "" =>
          \A i \in 1..Len(out.values) :
              out.values[i].refs = RefsContaining(ScannedRefs(out.values[i].name), out.commit)

C12_Witness ==
    /\ out.commit = "c2"
    /\ Len(out.values) = 1
    /\ out.values[1].name = "tags"
    /\ Len(view.tags) = 2
    /\ view.tags[1].target = <<"c1">>
    /\ view.tags[2].target = <<"c1", "c2">>
    /\ \E rc \in Cells("tags") :
          /\ Len(Bucket(rc, "c1")) = 2
          /\ Bucket(rc, "c2") = <<Bucket(rc, "c1")[2]>>
          /\ Bucket(rc, "c2")[1].conflict

-----------------------------------------------------------------------------
(* Claims about git_head and working_copies (checked under SpecRepo) *)

(* C13: git_head yields exactly one RefName named "HEAD" whose remote is
   the local-git sentinel and whose synced flag is false when the git HEAD
   target of the view includes the commit id, and an empty list otherwise;
   it is read from the git HEAD target, no index being built or held. *)
C13_GitHeadFromTargetOnly ==
    out.commit # "" =>
        \A i \in 1..Len(out.values) :
            out.values[i].name = "git_head" =>
                /\ out.values[i].evaluated
                /\ IF \E k \in 1..Len(view.git_head) : view.git_head[k] = out.commit
                   THEN /\ Len(out.values[i].refs) = 1
                        /\ out.values[i].refs[1].name = "HEAD"
                        /\ out.values[i].refs[1].remote = <<"git">>
                        /\ out.values[i].refs[1].synced = FALSE
                        /\ out.values[i].refs[1].conflict = (Len(view.git_head) > 1)
                   ELSE out.values[i].refs = <<>>
                /\ props[i].index = <<>>
                /\ \A cat \in DOMAIN builds : builds[cat] = 0

C13_Witness ==
    /\ out.commit = "c2"
    /\ Len(out.values) = 1
    /\ out.values[1].name = "git_head"
    /\ view.git_head = <<"c2">>
    /\ Len(out.values[1].refs) = 1
    /\ view.tags # <<>>

WorkspaceRank(w) == CHOOSE i \in 1..Len(WorkspaceIds) : WorkspaceIds[i] = w

CheckedOutAt(c) == {w \in DOMAIN view.wc_commit_ids : view.wc_commit_ids[w] = c}

(* C14: working_copies yields the empty string when the view tracks at most
   one workspace, even one that has the commit checked out; with two or
   more it yields the tokens "<workspace id>@" of exactly the workspaces
   whose checked-out commit is the commit, in workspace id order, joined by
   single spaces. *)
C14_WorkingCopiesTokens ==
    out.commit # "" =>
        \A i \in 1..Len(out.values) :
            out.values[i].name = "working_copies" =>
                LET string == out.values[i].string
                    here == CheckedOutAt(out.commit)
                    n == Cardinality(here)
                IN  /\ out.values[i].evaluated
                    /\ IF Cardinality(DOMAIN view.wc_commit_ids) <= 1 \/ n = 0
                       THEN string = <<>>
                       ELSE /\ Len(string) = 3 * n - 1
                            /\ \A k \in 1..n :
                                  /\ string[3 * k - 2] \in here
                                  /\ string[3 * k - 1] = "@"
                                  /\ k < n =>
                                        /\ string[3 * k] = " "
                                        /\ WorkspaceRank(string[3 * k - 2])
                                              < WorkspaceRank(string[3 * k + 1])

C14_Witness ==
    /\ out.commit = "c1"
    /\ Len(out.values) = 1
    /\ out.values[1].name = "working_copies"
    /\ out.values[1].string = <<"default", "@", " ", "third", "@">>

C14_SingleWorkspaceWitness ==
    /\ out.commit = "c1"
    /\ Len(out.values) = 1
    /\ out.values[1].name = "working_copies"
    /\ view.wc_commit_ids = [w \in {"second"} |-> "c1"]
    /\ out.values[1].string = <<>>

-----------------------------------------------------------------------------
(* Claims about failures of the backend during a render (checked under
   SpecRender) *)

AccessorFails(prop, c) ==
    /\ prop.self = "context"
    /\ \/ prop.name = "conflict" /\ ~store[c].has_conflict.ok
       \/ /\ prop.name = "empty"
          /\ Len(store[c].parent_tree_ids) # 1
          /\ ~store[c].merge_commit_trees.ok

(* C15 as stated: when the conflict check of `conflict` or the merge of the
   parents' trees of `empty` fails during the render of one commit, only
   that render is aborted: the session stays able to render the next commit
   with the same template. *)
C15_AccessorFailureAbortsOnlyThatRender ==
    (last.op = "render" /\ \E i \in 1..Len(props) : AccessorFails(props[i], out.commit))
        => pc = "built"

-----------------------------------------------------------------------------
(* Claims about shortest and its case transforms (checked under SpecCase) *)

MinimumLen == IF call.len = <<>> \/ call.len[1] < 0 THEN 0 ELSE call.len[1]

ShownLen == Min(HexLen, Max(prefix_len, MinimumLen))

(* C16: for an id of hex length L, a unique-prefix length u <= L and a
   minimum m (negative or absent counting as 0), shortest yields as prefix
   the first u characters of hex() and as prefix followed by rest the first
   min(L, max(u, m)) characters, rest being empty whenever m <= u; upper()
   and lower() keep the lengths of prefix and of rest. *)
C16_ShortestSplitAndCaseKeepLengths ==
    result.kind = "ShortestIdPrefix" =>
        /\ call.method = "shortest" =>
              /\ result.prefix = SubSeq(hex(id), 1, prefix_len)
              /\ result.prefix \o result.rest = SubSeq(hex(id), 1, ShownLen)
        /\ Len(result.prefix) = prefix_len
        /\ Len(result.rest) = ShownLen - prefix_len
        /\ MinimumLen <= prefix_len => result.rest = <<>>

C16_Witness ==
    /\ call.method = "upper"
    /\ result.kind = "ShortestIdPrefix"
    /\ HexLen = 2 * MaxIdBytes
    /\ prefix_len = 3
    /\ call.len = <<HexLen + 1>>
    /\ Len(result.rest) = HexLen - 3
    /\ result.prefix # SubSeq(hex(id), 1, 3)
    /\ to_ascii_lowercase(result.prefix \o result.rest) = hex(id)

-----------------------------------------------------------------------------
(* Claims about the text written for ref names (checked under SpecIndex) *)

Sigil(r) ==
    IF r.conflict THEN <<"??">>
    ELSE IF r.remote = <<>> /\ r.synced = FALSE THEN <<"*">>
    ELSE <<>>

ExpectedText(r) ==
    <<r.name>> \o (IF r.remote # <<>> THEN <<"@", r.remote[1]>> ELSE <<>>) \o Sigil(r)

RECURSIVE ExpectedTexts(_)
ExpectedTexts(refs) ==
    IF refs = <<>> THEN <<>>
    ELSE IF Len(refs) = 1 THEN ExpectedText(refs[1])
    ELSE ExpectedText(refs[1]) \o <<" ">> \o ExpectedTexts(Tail(refs))

TextOf(written) == [k \in 1..Len(written) |-> written[k].text]

(* C17: the text written for a RefName is its name, then "@" and the remote
   name exactly when it is a remote ref, then at most one sigil: "??" when
   conflict is set, otherwise "*" exactly when the ref is local and not
   synced; never both sigils, and never "*" for a remote ref. *)
C17_RefNameTextAndSigil ==
    out.commit # "" =>
        \A i \in 1..Len(out.values) :
            (out.values[i].evaluated /\ out.values[i].kind = "RefNameList") =>
                /\ TextOf(out.values[i].written) = ExpectedTexts(out.values[i].refs)
                /\ \A k \in 1..Len(out.values[i].written) :
                      out.values[i].written[k].text = "*" =>
                          /\ k > 1
                          /\ out.values[i].written[k - 1].label = "name"
                          /\ (k < Len(out.values[i].written) =>
                                out.values[i].written[k + 1].text = " ")

C17_Witness ==
    /\ out.commit # ""
    /\ Len(out.values) = 1
    /\ Len(out.values[1].refs) = 2
    /\ out.values[1].refs[1].remote = <<>>
    /\ out.values[1].refs[1].conflict
    /\ out.values[1].refs[1].synced = FALSE
    /\ out.values[1].refs[2].remote # <<>>
    /\ out.values[1].refs[2].synced = FALSE
    /\ ~out.values[1].refs[2].conflict
    /\ TextOf(out.values[1].written) = <<"b1", "??", " ", "b1", "@", "git">>

====
